---- MODULE Spec2Model ----
(***************************************************************************)
(* A model of keyv-cache-proxy (src/src/index.ts, lines 83-188).          *)
(*                                                                         *)
(* KeyvCacheProxy(options)(obj) wraps obj in a Proxy whose get trap turns  *)
(* every method into an async function that derives a key, reads the       *)
(* store, consults the onCache hook, and on a miss calls the method,       *)
(* consults the onFetch hook and writes the store.  Every await of that    *)
(* function is a point where other calls may run, so each await is one     *)
(* action of this model and calls interleave freely between them.          *)
(***************************************************************************)
EXTENDS Integers, Sequences, FiniteSets, TLC

VARIABLES
    cfg,        \* the options the wrapper was built with (index.ts:91)
    store,      \* the key-value store shared by the root and nested wrappers
    now,        \* the store's clock, in ttl units
    ticks,      \* how many times the clock has advanced
    calls,      \* the intercepted calls: position, locals and what each did
    lastSet,    \* history: per key, the call whose store.set ran last (0: none)
    global      \* the process-wide map of globalThisCached and its calls

vars == <<cfg, store, now, ticks, calls, lastSet, global>>

-----------------------------------------------------------------------------
(* Bounds of the model.                                                    *)

\* Calls made on a wrapper with hooks, and on a wrapper without hooks.
MaxCalls == 2
MaxPlainCalls == 3
\* Times the clock advances to the expiry of an entry.
MaxTicks == 1

CallIds == DOMAIN calls

-----------------------------------------------------------------------------
(* JavaScript values.                                                      *)

Undefined == [type |-> "undefined"]
Null == [type |-> "null"]
Num(n) == [type |-> "number", n |-> n]
Str(s) == [type |-> "string", s |-> s]

\* The outcome objects the specification gives the hooks.
SkipObj == [type |-> "object", skip |-> TRUE]
DataObj(v) == [type |-> "object", data |-> v]
DataTtlObj(v, t) == [type |-> "object", data |-> v, ttl |-> t]
EmptyObj == [type |-> "object"]

IsDataObj(v) == v.type = "object" /\ "data" \in DOMAIN v


-----------------------------------------------------------------------------
(* Key derivation (index.ts:101) and nested descent (index.ts:135-143).    *)

\* JSON.stringify of one element of the argument array: inside an array
\* undefined is encoded as null.
JSONElement(v) ==
    CASE v.type = "number" -> ToString(v.n)
      [] v.type = "string" -> "\"" \o v.s \o "\""
      [] v.type = "null" -> "null"
      [] v.type = "undefined" -> "null"
      [] OTHER -> "{}"

RECURSIVE JSONJoin(_)
JSONJoin(args) ==
    IF args = <<>> THEN ""
    ELSE IF Len(args) = 1 THEN JSONElement(Head(args))
    ELSE JSONElement(Head(args)) \o "," \o JSONJoin(Tail(args))

\* JSON.stringify(args) of the whole argument array.
JSONstringify(args) == "[" \o JSONJoin(args) \o "]"

\* Mutant: the key is built as name(arg,arg).
deriveKey_Paren(prefix, prop, args) == prefix \o prop \o "(" \o JSONJoin(args) \o ")"

\* Mutant: the key leaves the arguments out.
deriveKey_NoArgs(prefix, prop, args) == prefix \o prop

\* const key = `${prefix}${String(prop)}:${JSON.stringify(args)}`
deriveKey(prefix, prop, args) == prefix \o prop \o ":" \o JSONstringify(args)

\* Each descent into a nested object builds a wrapper whose prefix is
\* `${prefix}${String(prop)}.`
RECURSIVE nestedPrefix(_, _)
nestedPrefix(prefix, path) ==
    IF path = <<>> THEN prefix
    ELSE nestedPrefix(prefix \o Head(path) \o ".", Tail(path))

-----------------------------------------------------------------------------
(* The inputs: the call sites of the wrapped object, the values its        *)
(* methods and the hooks produce, and the options.                         *)

NoSite == [path |-> <<>>, prop |-> "", args |-> <<>>]

Sites ==
    { [path |-> <<>>, prop |-> "getValue", args |-> <<Num(5)>>],
      [path |-> <<>>, prop |-> "getValue", args |-> <<Num(6)>>] }

\* The site the calls on a wrapper with hooks use.
HookSites == { [path |-> <<>>, prop |-> "getValue", args |-> <<Num(5)>>] }

Prefixes == {"app:"}

SiteKey(prefix, site) ==
    deriveKey(nestedPrefix(prefix, site.path), site.prop, site.args)

\* Mutant: the nested wrapper is built without the hooks.
nestedOptions_NoHooks(config, prop) ==
    [prefix |-> config.prefix \o prop \o ".", ttl |-> config.ttl,
     onCache |-> FALSE, onFetch |-> FALSE]

\* The options of the wrapper the get trap builds over a nested object:
\* KeyvCacheProxy({store, ttl, onCache, onFetch, prefix: `${prefix}${prop}.`})
\* (index.ts:136-142).
nestedOptions(config, prop) ==
    [prefix |-> config.prefix \o prop \o ".", ttl |-> config.ttl,
     onCache |-> config.onCache, onFetch |-> config.onFetch]

\* The options of the wrapper reached from the root along a path.
RECURSIVE optionsAt(_, _)
optionsAt(config, path) ==
    IF path = <<>> THEN config
    ELSE optionsAt(nestedOptions(config, Head(path)), Tail(path))

Keys == { SiteKey(p, s) : p \in Prefixes, s \in Sites }

\* What a wrapped method may return; a method need not be deterministic.
MethodResults == {Num(0), Num(1), Undefined}

\* A value a hook substitutes.
HookData == Num(7)

\* What the onCache hook may return (index.ts:106).
OnCacheOutcomes == {Undefined, Null, HookData, SkipObj, DataObj(HookData)}

\* What the onFetch hook may return (index.ts:124).
OnFetchOutcomes == {Undefined, SkipObj, DataObj(HookData)}

\* The ttl option: absent, or a number of clock units.
Ttls == {Undefined, Num(1)}

-----------------------------------------------------------------------------
(* The store capability the layer uses: get(key) and set(key, value, ttl). *)

\* setAt is history: the instant of the store.set that wrote the entry.
NoEntry ==
    [present |-> FALSE, value |-> Undefined, expiring |-> FALSE, expires |-> 0,
     setAt |-> 0]

Expired(entry, t) == entry.present /\ entry.expiring /\ t > entry.expires

\* store.get(key): the stored value, or undefined when there is no entry
\* or the entry has expired.
storeGet(st, key, t) ==
    IF st[key].present /\ ~Expired(st[key], t) THEN st[key].value ELSE Undefined

\* The store drops an expired entry when it is read.
storeAfterGet(st, key, t) ==
    IF Expired(st[key], t) THEN [st EXCEPT ![key] = NoEntry] ELSE st

\* store.set(key, value, ttl): a numeric ttl > 0 makes the entry expire ttl
\* after now; no ttl means the entry does not expire.
storeSet(st, key, value, ttl, t) ==
    [st EXCEPT ![key] =
        [present |-> TRUE,
         value |-> value,
         expiring |-> (ttl.type = "number" /\ ttl.n > 0),
         expires |-> IF ttl.type = "number" /\ ttl.n > 0 THEN t + ttl.n ELSE 0,
         setAt |-> IF ttl.type = "number" /\ ttl.n > 0 THEN t ELSE 0]]

-----------------------------------------------------------------------------
(* The decisions of the intercepted call (index.ts:100-132).               *)

\* Mutant: the hit test is loose, if (cached != undefined), which null fails.
isHit_NotNullish(cached) == cached \notin {Undefined, Null}

\* Mutant: the hit test is cached !== null, which undefined passes.
isHit_NotNull(cached) == cached # Null

\* Mutant: the hit test is a truthiness test, if (cached).
isHit_Truthy(cached) == cached \notin {Undefined, Null, Num(0)}

\* if (cached !== undefined) return cached;        (index.ts:113)
isHit(cached) == cached # Undefined

\* Mutant: the forced miss is asked for with {skip: true}, not with null.
forcesMiss_Skip(modified) == modified = SkipObj

\* if (modified === null) cached = undefined       (index.ts:107)
forcesMiss(modified) == modified = Null

\* Mutant: every outcome but null is returned, undefined included.
returnsModified_Loose(modified) == modified # Null

\* else if (modified !== undefined) return modified (index.ts:109)
returnsModified(modified) == modified # Null /\ modified # Undefined

\* if (modified !== undefined) result = modified    (index.ts:125-127)
resolveOnFetch(result, modified) ==
    IF modified # Undefined THEN modified ELSE result

\* Mutant: a ttl is made up when none is configured.
setTtl_Default(config) == IF config.ttl = Undefined THEN Num(1) ELSE config.ttl

\* Mutant: store.set(key, result), the ttl left out.
setTtl_None(config) == Undefined

\* await store.set(key, result, ttl): the ttl of every write is the
\* configured one (index.ts:130)
setTtl(config) == config.ttl

-----------------------------------------------------------------------------
(* The calls.                                                              *)

InitCall ==
    [pc |-> "idle",          \* idle, onCache, method, onFetch, set, done, failed
     site |-> NoSite,
     key |-> "",
     cached |-> Undefined,   \* let cached
     result |-> Undefined,   \* let result, and what the call returned
     error |-> "",           \* the failure the call rejected with
     thrown |-> "",          \* history: the operation that failed under the call
     got |-> Undefined,      \* what store.get returned
     cacheOut |-> Undefined, \* what onCache returned
     fresh |-> Undefined,    \* what the method returned
     fetchOut |-> Undefined, \* what onFetch returned
     onCacheArgs |-> <<>>,
     onFetchArgs |-> <<>>,
     setArgs |-> <<>>,
     trace |-> <<>>,         \* history: what the call began and ended, in order
     callArgs |-> <<>>,      \* the arguments the original method was invoked with
     this |-> "",            \* the receiver the original method was invoked on
     inner |-> 0,            \* calls the method made through its receiver
     intercepted |-> 0,      \* those of them that went through the get trap
     val |-> [type |-> "none"], \* target[prop] of the last property access
     nWrap |-> 0,            \* wrappers built along the access path
     nGet |-> 0, nOnCache |-> 0, nInvoke |-> 0, nOnFetch |-> 0, nSet |-> 0,
     \* History, for stating the properties:
     pred |-> {},            \* the calls with this key that had ended when this one began
     held |-> Undefined,     \* the live value the store held for the key when read
     from |-> 0]             \* the call that had last set the key when it was read

Ended(c) == calls[c].pc \in {"done", "failed"}

\* Mutant: a failing method is invoked once more before the call rejects.
rejects_MethodRetried(r, error) ==
    IF error = "method" /\ r.nInvoke < 2
    THEN [r EXCEPT !.pc = "method", !.nInvoke = @ + 1]
    ELSE [r EXCEPT !.pc = "failed", !.error = error]

\* Mutant: a failing method is caught and its absence of a result cached.
rejects_MethodCaught(r, error) ==
    IF error = "method" THEN [r EXCEPT !.pc = "set", !.result = Undefined]
    ELSE [r EXCEPT !.pc = "failed", !.error = error]

\* Mutant: a failing hook is caught and the call carries on without it.
rejects_HookCaught(r, error) ==
    IF error = "onCache"
    THEN (IF r.cached # Undefined
          THEN [r EXCEPT !.pc = "done", !.result = r.cached]
          ELSE [r EXCEPT !.pc = "method", !.nInvoke = @ + 1])
    ELSE IF error = "onFetch" THEN [r EXCEPT !.pc = "set"]
    ELSE [r EXCEPT !.pc = "failed", !.error = error]

\* Mutant: a failing store is caught: a failed get counts as a miss, and
\* after a failed set the fresh result is returned all the same.
rejects_StoreCaught(r, error) ==
    IF error = "get" THEN [r EXCEPT !.pc = "method", !.nInvoke = @ + 1]
    ELSE IF error = "set" THEN [r EXCEPT !.pc = "done"]
    ELSE [r EXCEPT !.pc = "failed", !.error = error]

\* The async function has no try/catch: a rejection of any of its awaits
\* (index.ts:104, 106, 119, 124, 130) ends the call, which rejects with it.
rejects(r, error) == [r EXCEPT !.pc = "failed", !.error = error]

\* Mutant: a hit writes the value back, which renews its ttl.
hitTest_Refresh(r) ==
    IF isHit(r.cached)
    THEN [r EXCEPT !.pc = "set", !.result = r.cached]
    ELSE [r EXCEPT !.pc = "method", !.nInvoke = @ + 1]

\* Mutant: the method is bound to the receiver of the access, the proxy.
bindThis_Receiver(obj, receiver) == receiver

\* const method = val.bind(obj): the receiver of the original method is
\* the object the wrapper was built over, not the wrapper (index.ts:99).
bindThis(obj, receiver) == obj

\* Lines 113-119: return the cached value, or call the original method
\* with the arguments of the call, await method(...args).
hitTest(r) ==
    IF isHit(r.cached)
    THEN [r EXCEPT !.pc = "done", !.result = r.cached,
                   !.trace = Append(@, "return")]
    ELSE [r EXCEPT !.pc = "method", !.nInvoke = @ + 1,
                   !.callArgs = r.site.args,
                   !.this = bindThis("obj", "proxy"),
                   !.trace = Append(@, "method:begin")]

\* Mutant: the value onCache supplied is written to the store and returned.
afterOnCache_StoresModified(r, modified) ==
    LET r1 == [r EXCEPT !.cacheOut = modified, !.trace = Append(@, "onCache:end")]
    IN  IF forcesMiss(modified)
        THEN hitTest([r1 EXCEPT !.cached = Undefined])
        ELSE IF returnsModified(modified)
        THEN [r1 EXCEPT !.pc = "set", !.result = modified]
        ELSE hitTest(r1)

\* Lines 106-112: what the call does with the value onCache returned.
afterOnCache(r, modified) ==
    LET r1 == [r EXCEPT !.cacheOut = modified, !.trace = Append(@, "onCache:end")]
    IN  IF forcesMiss(modified)
        THEN hitTest([r1 EXCEPT !.cached = Undefined])
        ELSE IF returnsModified(modified)
        THEN [r1 EXCEPT !.pc = "done", !.result = modified,
                        !.trace = Append(@, "return")]
        ELSE hitTest(r1)

\* Mutant: onCache runs on hits only, as it did before version 0.1.0.
afterGet_HookOnHit(r, config, value) ==
    LET r1 == [r EXCEPT !.cached = value, !.got = value, !.nGet = @ + 1]
    IN  IF config.onCache /\ value # Undefined
        THEN [r1 EXCEPT !.pc = "onCache", !.nOnCache = @ + 1,
                        !.onCacheArgs = <<r.key, value>>]
        ELSE IF value # Undefined
        THEN [r1 EXCEPT !.pc = "done", !.result = value]
        ELSE [r1 EXCEPT !.pc = "method", !.nInvoke = @ + 1]

\* Lines 104-105: the value read from the store goes to onCache when the
\* hook is configured, and to the hit test otherwise.
afterGet(r, config, value) ==
    LET r1 == [r EXCEPT !.cached = value, !.got = value, !.nGet = @ + 1,
                        !.trace = @ \o <<"get:begin", "get:end">>]
    IN  IF config.onCache
        THEN [r1 EXCEPT !.pc = "onCache", !.nOnCache = @ + 1,
                        !.onCacheArgs = <<r.key, value>>,
                        !.trace = Append(@, "onCache:begin")]
        ELSE hitTest(r1)

\* Mutant: onFetch is skipped when the fresh result is falsy.
afterMethod_HookIfTruthy(r, config, value) ==
    LET r1 == [r EXCEPT !.fresh = value, !.result = value]
    IN  IF config.onFetch /\ value \notin {Undefined, Null, Num(0)}
        THEN [r1 EXCEPT !.pc = "onFetch", !.nOnFetch = @ + 1,
                        !.onFetchArgs = <<r.key, value>>]
        ELSE [r1 EXCEPT !.pc = "set"]

\* Mutant: onFetch is called without await, and store.set begins at once.
afterMethod_NoAwait(r, config, value) ==
    LET r1 == [r EXCEPT !.fresh = value, !.result = value,
                        !.trace = Append(@, "method:end")]
    IN  IF config.onFetch
        THEN [r1 EXCEPT !.pc = "set", !.nOnFetch = @ + 1,
                        !.onFetchArgs = <<r.key, value>>,
                        !.trace = @ \o <<"onFetch:begin", "set:begin">>]
        ELSE [r1 EXCEPT !.pc = "set", !.trace = Append(@, "set:begin")]

\* Lines 119-124: the fresh result goes to onFetch when the hook is
\* configured, and to store.set otherwise.
afterMethod(r, config, value) ==
    LET r1 == [r EXCEPT !.fresh = value, !.result = value,
                        !.trace = Append(@, "method:end")]
    IN  IF config.onFetch
        THEN [r1 EXCEPT !.pc = "onFetch", !.nOnFetch = @ + 1,
                        !.onFetchArgs = <<r.key, value>>,
                        !.trace = Append(@, "onFetch:begin")]
        ELSE [r1 EXCEPT !.pc = "set", !.trace = Append(@, "set:begin")]

\* Mutant: after onFetch the call waits for a lock nothing releases.
afterOnFetch_AwaitsLock(r, modified) ==
    [r EXCEPT !.fetchOut = modified,
              !.result = resolveOnFetch(r.result, modified),
              !.pc = "lock"]

\* Lines 124-127: the outcome of onFetch replaces result unless undefined.
afterOnFetch(r, modified) ==
    [r EXCEPT !.fetchOut = modified,
              !.result = resolveOnFetch(r.result, modified),
              !.pc = "set",
              !.trace = @ \o <<"onFetch:end", "set:begin">>]

\* Mutant: a result of undefined is not written; the entry is deleted.
writeStore_DeleteUndefined(st, r, config, t) ==
    IF r.result = Undefined THEN [st EXCEPT ![r.key] = NoEntry]
    ELSE storeSet(st, r.key, r.result, setTtl(config), t)

\* Mutant: the write is dropped when the key has got a value meanwhile.
writeStore_IfAbsent(st, r, config, t) ==
    IF storeGet(st, r.key, t) # Undefined THEN st
    ELSE storeSet(st, r.key, r.result, setTtl(config), t)

\* Mutant: the write goes to every key the store has.
writeStore_EveryKey(st, r, config, t) ==
    [k \in DOMAIN st |-> storeSet(st, k, r.result, setTtl(config), t)[k]]

\* await store.set(key, result, ttl): every call that fetched writes, whatever
\* the store holds by then (index.ts:130).
writeStore(st, r, config, t) ==
    storeSet(st, r.key, r.result, setTtl(config), t)

-----------------------------------------------------------------------------
(* Actions.                                                                *)

Options(hooks) ==
    [prefix : Prefixes, ttl : Ttls, onCache : hooks, onFetch : hooks]

\* Calls of globalThisCached, and the names they pass.
MaxGlobalCalls == 3
Names == {"key1", "key2"}

NoGlobalCall ==
    [name |-> "", pc |-> "idle", result |-> Undefined,
     invoked |-> 0,         \* history: times this call ran its producer
     pred |-> {},           \* history: calls with its name returned before it began
     from |-> 0,            \* history: the call whose result was stored when it began
     reentrant |-> FALSE]   \* history: began inside a producer for its name

\* globalThisCached has not been called: the map is empty (index.ts:178).
InitGlobal ==
    [cache |-> [name \in Names |-> [present |-> FALSE, value |-> Undefined]],
     by |-> [name \in Names |-> 0],
     stack |-> <<>>,
     calls |-> [g \in 1..MaxGlobalCalls |-> NoGlobalCall]]

InitWith(options, n, keys) ==
    /\ cfg \in options
    /\ global = InitGlobal
    /\ store = [k \in keys |-> NoEntry]
    /\ now = 0
    /\ ticks = 0
    /\ calls = [c \in 1..n |-> InitCall]
    /\ lastSet = [k \in keys |-> 0]

\* A wrapper built with any combination of hooks.
Init == InitWith(Options(BOOLEAN), MaxCalls, Keys)

\* A wrapper built with no hooks.
InitPlain == InitWith(Options({FALSE}), MaxPlainCalls, Keys)

\* The caller invokes a wrapped method: the async function derives its key
\* and reads the store (index.ts:100-104); what was read goes to onCache or
\* to the hit test.  Calls take their slots in the order they begin.
newCall(c, site) ==
    LET key == deriveKey(optionsAt(cfg, site.path).prefix, site.prop, site.args)
    IN  [calls[c] EXCEPT !.site = site,
                         !.key = key,
                         !.pred = {d \in CallIds : Ended(d) /\ calls[d].key = key},
                         !.held = IF store[key].present
                                     /\ (store[key].expiring => now <= store[key].expires)
                                  THEN store[key].value
                                  ELSE Undefined,
                         !.from = lastSet[key]]

Call(c, site) ==
    LET key == deriveKey(optionsAt(cfg, site.path).prefix, site.prop, site.args)
        r == newCall(c, site)
    IN  /\ calls[c].pc = "idle"
        /\ \A d \in CallIds : d < c => calls[d].pc # "idle"
        /\ calls' = [calls EXCEPT ![c] =
                    afterGet(r, optionsAt(cfg, site.path), storeGet(store, key, now))]
        /\ store' = storeAfterGet(store, key, now)
        /\ UNCHANGED <<cfg, global, now, ticks, lastSet>>

\* The onCache hook resolves (index.ts:106).
OnCacheDone(c, out) ==
    /\ calls[c].pc = "onCache"
    /\ calls' = [calls EXCEPT ![c] = afterOnCache(@, out)]
    /\ UNCHANGED <<cfg, global, store, now, ticks, lastSet>>

\* The original method resolves (index.ts:119).
MethodDone(c, value) ==
    /\ calls[c].pc = "method"
    /\ calls' = [calls EXCEPT ![c] =
                    afterMethod(@, optionsAt(cfg, calls[c].site.path), value)]
    /\ UNCHANGED <<cfg, global, store, now, ticks, lastSet>>

\* The original method throws or rejects: the await at index.ts:119
\* rethrows and the call rejects.
MethodThrow(c) ==
    /\ calls[c].pc = "method"
    /\ calls' = [calls EXCEPT ![c] = rejects([@ EXCEPT !.thrown = "method"], "method")]
    /\ UNCHANGED <<cfg, global, store, now, ticks, lastSet>>

\* The onFetch hook resolves (index.ts:124).
OnFetchDone(c, out) ==
    /\ calls[c].pc = "onFetch"
    /\ calls' = [calls EXCEPT ![c] = afterOnFetch(@, out)]
    /\ UNCHANGED <<cfg, global, store, now, ticks, lastSet>>

\* Mutant: a call that finds an entry written since its own read returns
\* that entry instead of writing its own result.
StoreSet_ReturnsStored(c) ==
    /\ calls[c].pc = "set"
    /\ IF storeGet(store, calls[c].key, now) # Undefined
       THEN /\ calls' = [calls EXCEPT ![c] =
                           [@ EXCEPT !.pc = "done",
                                     !.result = storeGet(store, calls[c].key, now)]]
            /\ UNCHANGED <<store, lastSet>>
       ELSE /\ store' = writeStore(store, calls[c],
                                   optionsAt(cfg, calls[c].site.path), now)
            /\ calls' = [calls EXCEPT ![c] = [@ EXCEPT !.pc = "done", !.nSet = @ + 1]]
            /\ lastSet' = [lastSet EXCEPT ![calls[c].key] = c]
    /\ UNCHANGED <<cfg, global, now, ticks>>

\* store.set resolves and the call returns result (index.ts:130-131).
StoreSet(c) ==
    /\ calls[c].pc = "set"
    /\ store' = writeStore(store, calls[c], optionsAt(cfg, calls[c].site.path), now)
    /\ calls' = [calls EXCEPT ![c] =
                    [@ EXCEPT !.pc = "done",
                              !.nSet = @ + 1,
                              !.trace = @ \o <<"set:end", "return">>,
                              !.setArgs = <<calls[c].key, calls[c].result,
                                            setTtl(optionsAt(cfg, calls[c].site.path))>>]]
    /\ lastSet' = [lastSet EXCEPT ![calls[c].key] = c]
    /\ UNCHANGED <<cfg, global, now, ticks>>

\* The entries that have a ttl still to elapse.
Expiring(st, t) == {k \in DOMAIN st : st[k].present /\ st[k].expiring /\ ~Expired(st[k], t)}

\* Time passes.  The layer never reads the clock; only the store does, to
\* expire entries, so the clock moves from one expiry to the next: to the
\* first instant at which the entry of key k has expired.
Tick(k) ==
    /\ ticks < MaxTicks
    /\ k \in Expiring(store, now)
    /\ \A j \in Expiring(store, now) : store[k].expires <= store[j].expires
    /\ now' = store[k].expires + 1
    /\ ticks' = ticks + 1
    /\ UNCHANGED <<cfg, global, store, calls, lastSet>>

\* Calls on a wrapper without hooks.
PlainNext ==
    \/ \E c \in CallIds, site \in Sites : Call(c, site)
    \/ \E c \in CallIds, value \in MethodResults : MethodDone(c, value)
    \/ \E c \in CallIds : MethodThrow(c)
    \/ \E c \in CallIds : StoreSet(c)
    \/ \E k \in Keys : Tick(k)

\* Calls on a wrapper with any combination of hooks.
Next ==
    \/ \E c \in CallIds, site \in HookSites : Call(c, site)
    \/ \E c \in CallIds, out \in OnCacheOutcomes : OnCacheDone(c, out)
    \/ \E c \in CallIds, value \in MethodResults : MethodDone(c, value)
    \/ \E c \in CallIds : MethodThrow(c)
    \/ \E c \in CallIds, out \in OnFetchOutcomes : OnFetchDone(c, out)
    \/ \E c \in CallIds : StoreSet(c)
    \/ \E k \in Keys : Tick(k)

Spec == Init /\ [][Next]_vars

SpecPlain == InitPlain /\ [][PlainNext]_vars

-----------------------------------------------------------------------------
(* Vocabulary of the properties.                                           *)

Started(c) == calls[c].pc # "idle"
Done(c) == calls[c].pc = "done"
NoHooks == ~cfg.onCache /\ ~cfg.onFetch
NoTtlElapsed == ticks = 0

\* d began after c had ended; both have the same key.
Later(c, d) == c \in calls[d].pred

\* Two calls with the same key that were outstanding at the same time.
Overlap(c, d) ==
    /\ c # d /\ Started(c) /\ Started(d)
    /\ calls[c].key = calls[d].key
    /\ ~Later(c, d) /\ ~Later(d, c)

\* No call with the same key was outstanding while c was.
Alone(c) == \A d \in CallIds : ~Overlap(c, d)

\* How many times the calls with key k have invoked the original method.
RECURSIVE InvokedUpTo(_, _)
InvokedUpTo(k, n) ==
    IF n = 0 THEN 0
    ELSE InvokedUpTo(k, n - 1)
         + (IF n \in CallIds /\ calls[n].key = k THEN calls[n].nInvoke ELSE 0)

Invoked(k) == InvokedUpTo(k, Cardinality(CallIds))

-----------------------------------------------------------------------------
(* C1: memoization of a repeated call.                                     *)

\* C1 as stated: with no hooks and no ttl elapsed, once a call m(a) has
\* completed successfully, every later call m(a) returns that call's result
\* and does not invoke the original method.
C1_Original ==
    \A f \in CallIds, c \in CallIds :
        (NoHooks /\ NoTtlElapsed /\ Done(f) /\ Later(f, c))
            => /\ calls[c].nInvoke = 0
               /\ Done(c) => calls[c].result = calls[f].result

\* C1 as amended: with no hooks and no ttl elapsed, once a call m(a) that
\* overlapped no other call m(a) has completed successfully with a result
\* other than undefined, every later call m(a) returns that call's result
\* and does not invoke the original method.
C1_Memoized ==
    \A f \in CallIds, c \in CallIds :
        (NoHooks /\ NoTtlElapsed /\ Done(f) /\ Later(f, c)
         /\ calls[f].result # Undefined /\ Alone(f))
            => /\ calls[c].nInvoke = 0
               /\ Done(c) /\ calls[c].result = calls[f].result

\* A first call that invoked the method and a later call served its result.
C1_Witness ==
    \E f \in CallIds, c \in CallIds :
        /\ NoHooks /\ Done(f) /\ Alone(f) /\ Later(f, c)
        /\ calls[f].nInvoke = 1 /\ calls[f].result = Num(0)
        /\ Done(c) /\ calls[c].nInvoke = 0 /\ calls[c].result = Num(0)
        /\ cfg.ttl = Num(1)

-----------------------------------------------------------------------------
(* C2: distinct argument lists have independent entries.                   *)

\* The calls made so far with the same key did not overlap.
Sequential == \A c \in CallIds, d \in CallIds : ~Overlap(c, d)

\* No call made so far failed or got undefined from the method.
AllDefined ==
    \A c \in CallIds :
        /\ calls[c].pc # "failed"
        /\ calls[c].pc \in {"set", "done"} => calls[c].result # Undefined

\* A hit is served from an entry set by a call with the same argument list.
OwnEntry(c) ==
    (Done(c) /\ calls[c].nInvoke = 0)
        => /\ calls[c].from \in CallIds
           /\ calls[calls[c].from].site.args = calls[c].site.args
           /\ calls[calls[c].from].result = calls[c].result

-----------------------------------------------------------------------------
(* C3: no single flight; the last write wins.                              *)

\* Both calls missed an empty store, invoked the method and wrote.
BothMissedAndWrote(c, d) ==
    /\ Overlap(c, d) /\ Done(c) /\ Done(d)
    /\ calls[c].held = Undefined /\ calls[d].held = Undefined
    /\ calls[c].from = 0 /\ calls[d].from = 0
    /\ calls[c].nInvoke = 1 /\ calls[d].nInvoke = 1
    /\ calls[c].nSet = 1 /\ calls[d].nSet = 1

\* C3: when two outstanding calls with the same key both missed, both
\* invoked the method and both wrote, the store holds the value of the
\* write that happened last.
C3_LastWriteWins ==
    \A c \in CallIds, d \in CallIds :
        (BothMissedAndWrote(c, d) /\ lastSet[calls[d].key] = d
         /\ store[calls[d].key].present)
            => store[calls[d].key].value = calls[d].result

\* Both calls missed and wrote different values; the store holds the later.
C3_Witness ==
    \E c \in CallIds, d \in CallIds :
        /\ BothMissedAndWrote(c, d) /\ lastSet[calls[d].key] = d
        /\ calls[c].result = Num(1) /\ calls[d].result = Num(0)
        /\ store[calls[d].key].present
        /\ store[calls[d].key].value = Num(0)

-----------------------------------------------------------------------------
(* C4: the onCache hook runs once on every call, with what the store held. *)

\* C4: when the onCache hook is configured, every call invokes it exactly
\* once, after the store has been read, with the call's key and the value
\* the store held for the key: undefined when it held none.
C4_OnCacheEveryCall ==
    cfg.onCache
        => \A c \in CallIds :
              /\ ~Started(c) => calls[c].nOnCache = 0
              /\ Started(c) =>
                    /\ calls[c].nOnCache = 1
                    /\ calls[c].nGet = 1
                    /\ calls[c].onCacheArgs = <<calls[c].key, calls[c].held>>

\* The hook has run on a miss and on a later hit, and both calls ended.
C4_Witness ==
    /\ cfg.onCache
    /\ \E c \in CallIds, d \in CallIds :
          /\ Done(c) /\ calls[c].nOnCache = 1
          /\ calls[c].onCacheArgs = <<calls[c].key, Undefined>>
          /\ Done(d) /\ calls[d].nOnCache = 1 /\ Later(c, d)
          /\ calls[d].onCacheArgs = <<calls[d].key, Num(1)>>

-----------------------------------------------------------------------------
(* C5, C6, C7: what the call does with the outcome of the onCache hook.    *)

\* The onCache hook of call c has returned.
OnCacheReturned(c) == cfg.onCache /\ calls[c].pc \notin {"idle", "onCache"}

\* C5 as stated: when the hook returns {skip: true} on a call for which
\* the store holds a value, the original method is invoked on that call
\* and the caller receives the fresh result.
C5_SkipForcesMiss ==
    \A c \in CallIds :
        (OnCacheReturned(c) /\ calls[c].held # Undefined /\ calls[c].cacheOut = SkipObj)
            => /\ calls[c].nInvoke = 1
               /\ Done(c) => calls[c].result = calls[c].fresh

\* C6 as stated: when the hook returns {data: V}, the call returns V at
\* once: no method invocation, no onFetch, no store write.
C6_DataReturned ==
    \A c \in CallIds :
        (OnCacheReturned(c) /\ IsDataObj(calls[c].cacheOut))
            => /\ Done(c) /\ calls[c].result = calls[c].cacheOut.data
               /\ calls[c].nInvoke = 0 /\ calls[c].nOnFetch = 0 /\ calls[c].nSet = 0

\* What a call does with no onCache hook: a hit returns the stored value
\* and leaves the method and the store alone, a miss invokes the method.
PlainLookup(c) ==
    IF calls[c].held # Undefined
    THEN /\ Done(c) /\ calls[c].result = calls[c].held
         /\ calls[c].nInvoke = 0 /\ calls[c].nOnFetch = 0 /\ calls[c].nSet = 0
    ELSE /\ calls[c].nInvoke = 1
         /\ calls[c].pc \in {"method", "onFetch", "set", "done", "failed"}

\* C7: a call whose onCache hook returned undefined does what a call with
\* no onCache hook does.
C7_UndefinedIsNoHook ==
    \A c \in CallIds :
        /\ (OnCacheReturned(c) /\ calls[c].cacheOut = Undefined) => PlainLookup(c)
        /\ (~cfg.onCache /\ Started(c)) => PlainLookup(c)

\* The hook returned undefined on a miss and on a later hit.
C7_Witness ==
    \E c \in CallIds, d \in CallIds :
        /\ OnCacheReturned(c) /\ calls[c].cacheOut = Undefined
        /\ calls[c].held = Undefined /\ Done(c) /\ calls[c].nInvoke = 1
        /\ OnCacheReturned(d) /\ calls[d].cacheOut = Undefined /\ Later(c, d)
        /\ calls[d].held = Num(0) /\ Done(d) /\ calls[d].result = Num(0)

-----------------------------------------------------------------------------
(* C8: the onFetch hook runs once, on the calls that fetched.              *)

\* The original method of call c has returned a result.
MethodReturned(c) ==
    calls[c].nInvoke = 1 /\ calls[c].pc \in {"onFetch", "set", "done"}

\* C8: when the onFetch hook is configured, a call invokes it at most once:
\* exactly once, with the call's key and the fresh result, when the call's
\* invocation of the original method returned, and never when the call was
\* served from the cache or the method failed.
C8_OnFetchOnlyOnFetch ==
    cfg.onFetch
        => \A c \in CallIds :
              /\ calls[c].nOnFetch <= 1
              /\ calls[c].nOnFetch = 1 <=> MethodReturned(c)
              /\ calls[c].nOnFetch = 1 =>
                    calls[c].onFetchArgs = <<calls[c].key, calls[c].fresh>>
              /\ calls[c].nInvoke = 0 => calls[c].nOnFetch = 0

\* One call fetched and ran the hook once; a later call was served from the
\* cache and did not run it.
C8_Witness ==
    /\ cfg.onFetch
    /\ \E c \in CallIds, d \in CallIds :
          /\ Done(c) /\ calls[c].nInvoke = 1 /\ calls[c].nOnFetch = 1
          /\ calls[c].onFetchArgs = <<calls[c].key, Num(0)>>
          /\ Later(c, d) /\ Done(d) /\ calls[d].nInvoke = 0 /\ calls[d].nOnFetch = 0
          /\ calls[d].result = Num(0)

-----------------------------------------------------------------------------
(* C9, C10: what the call does with the outcome of the onFetch hook.       *)

\* C9 as stated: when the onFetch hook returns {data: V}, V is what is
\* written to the store under the call's key and what the call returns,
\* and a later call with the same key returns V without invoking the
\* original method.
C9_DataStored ==
    \A c \in CallIds :
        (Done(c) /\ calls[c].nOnFetch = 1 /\ IsDataObj(calls[c].fetchOut))
            => /\ calls[c].result = calls[c].fetchOut.data
               /\ calls[c].setArgs = <<calls[c].key, calls[c].fetchOut.data, cfg.ttl>>
               /\ \A d \in CallIds :
                     (Later(c, d) /\ Done(d) /\ Alone(c) /\ NoTtlElapsed /\ ~cfg.onCache)
                         => /\ calls[d].result = calls[c].fetchOut.data
                            /\ calls[d].nInvoke = 0

\* C10 as stated: when the onFetch hook returns {skip: true}, the call
\* returns the fresh result and writes nothing to the store: the store has
\* no entry for the key afterwards, and the next call with the same
\* arguments is a miss that invokes the original method again.
C10_SkipNotStored ==
    \A c \in CallIds :
        (Done(c) /\ calls[c].nOnFetch = 1 /\ calls[c].fetchOut = SkipObj)
            => /\ calls[c].result = calls[c].fresh
               /\ calls[c].nSet = 0
               /\ lastSet[calls[c].key] # c
               /\ \A d \in CallIds :
                     (calls[d].pred = {c} /\ Alone(c) /\ ~cfg.onCache)
                         => /\ calls[d].held = Undefined
                            /\ calls[d].nInvoke = 1

-----------------------------------------------------------------------------
(* Expiry.  A wrapper with a default ttl of two clock units whose onFetch   *)
(* hook may ask for a ttl of one, under a clock that advances one unit at   *)
(* a time.                                                                  *)

\* Calls made on the wrapper with a default ttl.
MaxTtlCalls == 3
\* The last instant of the unit clock.
MaxNow == 3

\* ttl: 10000 in the test, with { data: value, ttl: 100 } from the hook.
DefaultTtl == Num(2)
HookTtl == 1

OnFetchTtlOutcomes == {Undefined, DataTtlObj(HookData, HookTtl)}

\* What the method returns in the test: a count of its calls.
TtlResults == {Num(0), Num(1)}

TtlOptions ==
    [prefix : Prefixes, ttl : {DefaultTtl, Undefined}, onCache : {FALSE}, onFetch : {TRUE}]

InitTtl == InitWith(TtlOptions, MaxTtlCalls, Keys)

\* One unit of time passes.
Advance ==
    /\ now < MaxNow
    /\ now' = now + 1
    /\ ticks' = ticks + 1
    /\ UNCHANGED <<cfg, global, store, calls, lastSet>>

NextTtl ==
    \/ \E c \in CallIds, site \in HookSites : Call(c, site)
    \/ \E c \in CallIds, value \in TtlResults : MethodDone(c, value)
    \/ \E c \in CallIds, out \in OnFetchTtlOutcomes : OnFetchDone(c, out)
    \/ \E c \in CallIds : StoreSet(c)
    \/ Advance

SpecTtl == InitTtl /\ [][NextTtl]_vars

\* The step is call c beginning: its store.get and what follows at once.
Begins(c) == calls[c].pc = "idle" /\ calls'[c].pc # "idle"

\* The step is the store.set of call c.
Sets(c) == calls[c].pc = "set" /\ calls'[c].pc = "done"

IsDataTtlObj(v) == IsDataObj(v) /\ "ttl" \in DOMAIN v

-----------------------------------------------------------------------------
(* C11: the ttl the onFetch hook returns.                                  *)

\* C11 as stated: when the onFetch hook returns {data: V, ttl: t}, the
\* store.set of that call writes V with ttl t, so the entry expires t after
\* the write; and a call that begins after t has elapsed since the write,
\* while that entry is the last one written, invokes the original method.
C11_HookTtlUsed ==
    [][\A c \in CallIds :
          /\ (Sets(c) /\ IsDataTtlObj(calls[c].fetchOut))
                => /\ store'[calls[c].key].value = calls[c].fetchOut.data
                   /\ store'[calls[c].key].expiring
                   /\ store'[calls[c].key].expires = now + calls[c].fetchOut.ttl
          /\ \A f \in CallIds :
                (/\ Begins(c)
                 /\ lastSet[calls'[c].key] = f
                 /\ IsDataTtlObj(calls[f].fetchOut)
                 /\ now > store[calls'[c].key].setAt + calls[f].fetchOut.ttl)
                    => calls'[c].nInvoke = 1]_vars

-----------------------------------------------------------------------------
(* C12: an entry is served until the configured ttl has elapsed.           *)

\* C12: while an entry written with the configured ttl is in the store, a
\* call that begins before the ttl has elapsed since the write is served
\* the entry's value and does not invoke the original method; a call that
\* begins after the ttl has elapsed reads undefined and invokes the method;
\* and the store.set of a call writes an entry that expires the configured
\* ttl after that write.
C12_TtlExpiry ==
    [][\A c \in CallIds :
          /\ (Begins(c) /\ cfg.ttl.type = "number" /\ store[calls'[c].key].present)
                => LET e == store[calls'[c].key]
                   IN  /\ now < e.setAt + cfg.ttl.n
                            => /\ calls'[c].got = e.value
                               /\ (~cfg.onCache /\ e.value # Undefined)
                                    => /\ calls'[c].pc = "done"
                                       /\ calls'[c].result = e.value
                                       /\ calls'[c].nInvoke = 0
                       /\ now > e.setAt + cfg.ttl.n
                            => /\ calls'[c].got = Undefined
                               /\ ~cfg.onCache => calls'[c].nInvoke = 1
          /\ (Sets(c) /\ cfg.ttl.type = "number")
                => /\ store'[calls[c].key].present
                   /\ store'[calls[c].key].value = calls[c].result
                   /\ store'[calls[c].key].setAt = now
                   /\ store'[calls[c].key].expires = now + cfg.ttl.n]_vars

\* A call wrote an entry, a second call was served it before the ttl had
\* elapsed, and a third, after the ttl had elapsed, invoked the method again
\* and wrote a new entry.
C12_Witness ==
    \E f \in CallIds, c \in CallIds, d \in CallIds :
        /\ cfg.ttl = DefaultTtl
        /\ Done(f) /\ calls[f].nSet = 1 /\ calls[f].result = Num(0)
        /\ calls[f].fetchOut = Undefined
        /\ Later(f, c) /\ Done(c) /\ calls[c].from = f
        /\ calls[c].nInvoke = 0 /\ calls[c].result = Num(0)
        /\ Later(c, d) /\ Done(d) /\ calls[d].from = f
        /\ calls[d].held = Undefined /\ calls[d].nInvoke = 1
        /\ calls[d].nSet = 1 /\ calls[d].result = Num(1)
        /\ store[calls[d].key].value = Num(1)
        /\ store[calls[d].key].setAt = MaxNow

-----------------------------------------------------------------------------
(* Keys.  A wrapper with both hooks, each passing its value through, over   *)
(* an object with nested objects and with methods whose names and           *)
(* arguments are close to one another.                                      *)

\* Calls made on the wrapper whose keys are examined.
MaxKeyCalls == 2

KeyPrefixes == {"", "app:"}

GetValue(args) == [path |-> <<>>, prop |-> "getValue", args |-> args]
ApiGetData == [path |-> <<"api">>, prop |-> "getData", args |-> <<>>]
ApiV1GetData == [path |-> <<"api", "v1">>, prop |-> "getData", args |-> <<Num(1), Str("a")>>]
\* A method of the root object whose name holds a dot: obj["api.getData"]().
DottedGetData == [path |-> <<>>, prop |-> "api.getData", args |-> <<>>]

KeySites ==
    { GetValue(<<Num(5)>>), GetValue(<<Null>>), GetValue(<<Undefined>>),
      ApiGetData, ApiV1GetData, DottedGetData }

KeyKeys == { SiteKey(p, s) : p \in KeyPrefixes, s \in KeySites }

KeyResults == {Num(0), Num(1)}

KeyOptions ==
    [prefix : KeyPrefixes, ttl : {Undefined}, onCache : {TRUE}, onFetch : {TRUE}]

InitKeys == InitWith(KeyOptions, MaxKeyCalls, KeyKeys)

NextKeys ==
    \/ \E c \in CallIds, site \in KeySites : Call(c, site)
    \/ \E c \in CallIds : OnCacheDone(c, Undefined)
    \/ \E c \in CallIds, value \in KeyResults : MethodDone(c, value)
    \/ \E c \in CallIds : OnFetchDone(c, Undefined)
    \/ \E c \in CallIds : StoreSet(c)

SpecKeys == InitKeys /\ [][NextKeys]_vars

\* The key is what the call gave store.get, the hooks and store.set; the
\* store is read under a key exactly when a call with that key has begun.
KeyUsed(c, key) ==
    /\ calls[c].key = key
    /\ calls[c].nOnCache = 1 => calls[c].onCacheArgs[1] = key
    /\ calls[c].nOnFetch = 1 => calls[c].onFetchArgs[1] = key
    /\ calls[c].nSet = 1 => calls[c].setArgs[1] = key /\ store[key].present

-----------------------------------------------------------------------------
(* C13: the key format of the specification.                               *)

\* prefix + methodName + "(" + comma-joined JSON of the arguments + ")"
ParenKey(prefix, site) ==
    nestedPrefix(prefix, site.path) \o site.prop \o "(" \o JSONJoin(site.args) \o ")"

\* C13 as stated: the key of a call is prefix + methodName + "(" + the
\* comma-joined JSON encodings of the arguments + ")", each nested descent
\* appending propertyName + "." to the prefix, so that with prefix "app:"
\* the call api.getData() uses "app:api.getData()" for store.get, both hooks
\* and store.set.
C13_ParenKey ==
    \A c \in CallIds :
        Started(c)
            => /\ KeyUsed(c, ParenKey(cfg.prefix, calls[c].site))
               /\ (cfg.prefix = "app:" /\ calls[c].site = ApiGetData)
                    => KeyUsed(c, "app:api.getData()")

-----------------------------------------------------------------------------
(* C14: the key format of the README.                                      *)

\* `${prefix}${methodName}:${JSON.stringify(args)}` written out for each
\* call site, the prefix of a nested method extended by each property name
\* and a dot.
ReadmeKey(prefix, site) ==
    prefix \o
    (CASE site = GetValue(<<Num(5)>>) -> "getValue:[5]"
       [] site = GetValue(<<Null>>) -> "getValue:[null]"
       [] site = GetValue(<<Undefined>>) -> "getValue:[null]"
       [] site = ApiGetData -> "api.getData:[]"
       [] site = ApiV1GetData -> "api.v1.getData:[1,\"a\"]"
       [] site = DottedGetData -> "api.getData:[]")

-----------------------------------------------------------------------------
(* C15: the key identifies the call.                                       *)

\* C15 as stated: two calls derive the same key exactly when they have the
\* same object path, method name and argument list, and a call is served
\* from the entry another call wrote only when the two agree in all three.
C15_KeyIdentifiesCall ==
    \A c \in CallIds, d \in CallIds :
        (Started(c) /\ Started(d))
            => /\ calls[c].key = calls[d].key <=> calls[c].site = calls[d].site
               /\ (Done(d) /\ calls[d].nInvoke = 0 /\ calls[d].from = c)
                    => calls[c].site = calls[d].site

-----------------------------------------------------------------------------
(* Failures.  A wrapper with any combination of hooks in which every       *)
(* operation a call awaits may fail: the store's get and set, the hooks    *)
(* and the original method.                                                *)

FailResults == {Num(1)}

FailOptions ==
    [prefix : Prefixes, ttl : {Undefined}, onCache : BOOLEAN, onFetch : BOOLEAN]

InitFail == InitWith(FailOptions, MaxCalls, Keys)

\* The caller invokes a wrapped method and store.get rejects (index.ts:104).
StoreGetFail(c, site) ==
    /\ calls[c].pc = "idle"
    /\ \A d \in CallIds : d < c => calls[d].pc # "idle"
    /\ calls' = [calls EXCEPT ![c] =
                    rejects([newCall(c, site) EXCEPT !.nGet = @ + 1, !.thrown = "get"],
                            "get")]
    /\ UNCHANGED <<cfg, global, store, now, ticks, lastSet>>

\* The onCache hook throws or rejects (index.ts:106).
OnCacheThrow(c) ==
    /\ calls[c].pc = "onCache"
    /\ calls' = [calls EXCEPT ![c] = rejects([@ EXCEPT !.thrown = "onCache"], "onCache")]
    /\ UNCHANGED <<cfg, global, store, now, ticks, lastSet>>

\* The onFetch hook throws or rejects (index.ts:124).
OnFetchThrow(c) ==
    /\ calls[c].pc = "onFetch"
    /\ calls' = [calls EXCEPT ![c] = rejects([@ EXCEPT !.thrown = "onFetch"], "onFetch")]
    /\ UNCHANGED <<cfg, global, store, now, ticks, lastSet>>

\* store.set rejects, having written nothing (index.ts:130).
StoreSetFail(c) ==
    /\ calls[c].pc = "set"
    /\ calls' = [calls EXCEPT ![c] =
                    rejects([@ EXCEPT !.nSet = @ + 1,
                                      !.setArgs = <<calls[c].key, calls[c].result,
                                                    setTtl(optionsAt(cfg, calls[c].site.path))>>,
                                      !.thrown = "set"],
                            "set")]
    /\ UNCHANGED <<cfg, global, store, now, ticks, lastSet>>

NextFail ==
    \/ \E c \in CallIds, site \in HookSites : Call(c, site)
    \/ \E c \in CallIds, site \in HookSites : StoreGetFail(c, site)
    \/ \E c \in CallIds : OnCacheDone(c, Undefined)
    \/ \E c \in CallIds : OnCacheThrow(c)
    \/ \E c \in CallIds, value \in FailResults : MethodDone(c, value)
    \/ \E c \in CallIds : MethodThrow(c)
    \/ \E c \in CallIds : OnFetchDone(c, Undefined)
    \/ \E c \in CallIds : OnFetchThrow(c)
    \/ \E c \in CallIds : StoreSet(c)
    \/ \E c \in CallIds : StoreSetFail(c)

SpecFail == InitFail /\ [][NextFail]_vars

\* Call c has ended as a failed asynchronous result carrying the error of
\* the operation that failed.
FailedWith(c, error) == calls[c].pc = "failed" /\ calls[c].error = error

\* Call c has written nothing: it ran no store.set, and no entry is its.
WroteNothing(c) == calls[c].nSet = 0 /\ lastSet[calls[c].key] # c

\* The onCache hook did not fail under d and d has got past it.
PastOnCache(d) ==
    calls[d].pc \notin {"idle", "onCache"} /\ calls[d].thrown \notin {"get", "onCache"}

-----------------------------------------------------------------------------
(* C16: a failure of the original method.                                  *)

\* C16: when the original method fails, the call ends as a failed result
\* carrying the method's error, having invoked the method once, without
\* invoking onFetch and without a store.set; the store has no entry of this
\* call, and when the call had found no entry and overlapped no other call,
\* the next call with its key finds none either and invokes the method again.
C16_MethodFailure ==
    \A c \in CallIds :
        calls[c].thrown = "method"
            => /\ FailedWith(c, "method")
               /\ calls[c].nInvoke = 1
               /\ calls[c].nOnFetch = 0
               /\ WroteNothing(c)
               /\ \A d \in CallIds :
                     (/\ calls[d].pred = {c} /\ Alone(c) /\ calls[c].held = Undefined
                      /\ PastOnCache(d))
                         => calls[d].held = Undefined /\ calls[d].nInvoke = 1

\* The method failed under one call, and the next call invoked it again,
\* got a result and wrote it.
C16_Witness ==
    \E c \in CallIds, d \in CallIds :
        /\ cfg.onFetch /\ calls[c].thrown = "method" /\ FailedWith(c, "method")
        /\ calls[c].held = Undefined /\ Alone(c)
        /\ calls[d].pred = {c} /\ Done(d) /\ calls[d].nInvoke = 1
        /\ calls[d].nSet = 1 /\ store[calls[d].key].value = Num(1)

-----------------------------------------------------------------------------
(* C17: a failure of a hook.                                               *)

\* C17: when a hook fails, the call fails with the hook's error and makes
\* no store.set; after a failing onCache the original method has not been
\* invoked, and after a failing onFetch it has been invoked once and the
\* store does not hold the fresh result through this call.
C17_HookFailure ==
    \A c \in CallIds :
        /\ calls[c].thrown = "onCache"
              => /\ FailedWith(c, "onCache")
                 /\ calls[c].nInvoke = 0
                 /\ WroteNothing(c)
        /\ calls[c].thrown = "onFetch"
              => /\ FailedWith(c, "onFetch")
                 /\ calls[c].nInvoke = 1 /\ calls[c].fresh = Num(1)
                 /\ WroteNothing(c)
                 /\ \A d \in CallIds :
                       (calls[d].pred = {c} /\ Alone(c) /\ calls[c].held = Undefined)
                           => calls[d].held = Undefined

\* onFetch failed under one call, whose method had returned; onCache failed
\* under the next, which found no entry.
C17_Witness ==
    \E c \in CallIds, d \in CallIds :
        /\ calls[c].thrown = "onFetch" /\ FailedWith(c, "onFetch")
        /\ calls[c].fresh = Num(1) /\ Alone(c)
        /\ calls[d].pred = {c} /\ calls[d].held = Undefined
        /\ calls[d].thrown = "onCache" /\ FailedWith(d, "onCache")
        /\ \A k \in DOMAIN store : ~store[k].present

-----------------------------------------------------------------------------
(* C18: a failure of the store.                                            *)

\* C18: when store.get fails, the call fails with that error without
\* invoking a hook or the original method; when store.set fails, the call
\* fails with that error although the method returned, and does not return
\* the fresh value; and a call attempts get and set at most once each.
C18_StoreFailure ==
    \A c \in CallIds :
        /\ calls[c].thrown = "get"
              => /\ FailedWith(c, "get")
                 /\ calls[c].nOnCache = 0 /\ calls[c].nInvoke = 0
                 /\ calls[c].nOnFetch = 0 /\ calls[c].nSet = 0
        /\ calls[c].thrown = "set"
              => /\ FailedWith(c, "set")
                 /\ calls[c].nInvoke = 1 /\ calls[c].fresh = Num(1)
        /\ calls[c].nGet <= 1 /\ calls[c].nSet <= 1

\* store.set failed under one call after its method had returned, and
\* store.get failed under the next.
C18_Witness ==
    \E c \in CallIds, d \in CallIds :
        /\ calls[c].thrown = "set" /\ FailedWith(c, "set")
        /\ calls[c].nSet = 1 /\ calls[c].fresh = Num(1)
        /\ calls[d].pred = {c}
        /\ calls[d].thrown = "get" /\ FailedWith(d, "get") /\ calls[d].nGet = 1

-----------------------------------------------------------------------------
(* C19: a hit leaves the store alone.                                      *)

\* C19: every step of a call that found a live entry and has not invoked
\* the original method leaves the store as it was, the entry's expiry
\* included, and the call has run no store.set: in particular the step by
\* which the call returns the cached value.
C19_HitWritesNothing ==
    [][\A c \in CallIds :
          (/\ calls'[c] # calls[c]
           /\ calls'[c].held # Undefined
           /\ calls'[c].nInvoke = 0)
              => /\ store' = store
                 /\ lastSet' = lastSet
                 /\ calls'[c].nSet = 0
                 /\ calls'[c].pc = "done" /\ calls'[c].result = calls'[c].held]_vars

\* A call was served an entry that carries a ttl, after the clock had moved,
\* and the entry is still as the earlier call wrote it at instant 0.
C19_Witness ==
    \E f \in CallIds, c \in CallIds :
        /\ Done(f) /\ calls[f].nSet = 1 /\ calls[f].result = Num(1)
        /\ Later(f, c) /\ Done(c) /\ calls[c].from = f
        /\ calls[c].nInvoke = 0 /\ calls[c].nSet = 0 /\ calls[c].result = Num(1)
        /\ lastSet[calls[c].key] = f
        /\ now = 2
        /\ store[calls[c].key] =
              [present |-> TRUE, value |-> Num(1), expiring |-> TRUE,
               expires |-> DefaultTtl.n, setAt |-> 0]

-----------------------------------------------------------------------------
(* Order.  A wrapper whose hooks hand back the value they were given, as   *)
(* the hooks of the test "should call both hooks appropriately" do, or      *)
(* return nothing; its entries expire, so that a miss may follow a hit.     *)

\* Calls made on the wrapper whose order of operations is examined.
MaxOrderCalls == 3

OrderResults == {Num(1), Num(2)}

OrderOptions ==
    [prefix : Prefixes, ttl : {Num(1)}, onCache : BOOLEAN, onFetch : BOOLEAN]

InitOrder == InitWith(OrderOptions, MaxOrderCalls, Keys)

NextOrder ==
    \/ \E c \in CallIds, site \in HookSites : Call(c, site)
    \/ \E c \in CallIds : \E out \in {Undefined, calls[c].cached} : OnCacheDone(c, out)
    \/ \E c \in CallIds, value \in OrderResults : MethodDone(c, value)
    \/ \E c \in CallIds : \E out \in {Undefined, calls[c].result} : OnFetchDone(c, out)
    \/ \E c \in CallIds : StoreSet(c)
    \/ \E k \in Keys : Tick(k)

SpecOrder == InitOrder /\ [][NextOrder]_vars

-----------------------------------------------------------------------------
(* C20: the steps of a call are sequential.                                *)

Hook(on, name) == IF on THEN <<name \o ":begin", name \o ":end">> ELSE <<>>

\* The order the claim gives for a call that ends as a hit, and for one
\* that fetches.
HitOrder(config) ==
    <<"get:begin", "get:end">> \o Hook(config.onCache, "onCache") \o <<"return">>

FetchOrder(config) ==
    <<"get:begin", "get:end">> \o Hook(config.onCache, "onCache")
        \o <<"method:begin", "method:end">> \o Hook(config.onFetch, "onFetch")
        \o <<"set:begin", "set:end", "return">>

IsPrefix(t, full) == Len(t) <= Len(full) /\ SubSeq(full, 1, Len(t)) = t

\* The operation a call that is at pc has begun and not ended.
Running(pc) == IF pc = "done" THEN "return" ELSE pc \o ":begin"

\* The hook invocations of call c, in order.
HooksOf(c) ==
    SelectSeq(calls[c].trace, LAMBDA e : e \in {"onCache:begin", "onFetch:begin"})

\* C20: what a call has begun and ended so far is an initial part of
\* get, onCache, method, onFetch, set, return (or of get, onCache, return),
\* every operation ended before the next began, and the only operation
\* begun and not ended is the one the call is waiting for; and when three
\* calls follow one another as miss, hit, miss, the hooks were invoked as
\* onCache, onFetch, onCache, onCache, onFetch.
C20_StepsSequential ==
    /\ \A c \in CallIds :
          Started(c)
              => /\ \/ IsPrefix(calls[c].trace, HitOrder(cfg))
                    \/ IsPrefix(calls[c].trace, FetchOrder(cfg))
                 /\ calls[c].trace[Len(calls[c].trace)] = Running(calls[c].pc)
                 /\ Done(c) => calls[c].trace \in {HitOrder(cfg), FetchOrder(cfg)}
    /\ (/\ cfg.onCache /\ cfg.onFetch
        /\ Cardinality(CallIds) >= 3
        /\ Done(1) /\ Done(2) /\ Done(3) /\ Later(1, 2) /\ Later(2, 3)
        /\ calls[1].nInvoke = 1 /\ calls[2].nInvoke = 0 /\ calls[3].nInvoke = 1)
            => HooksOf(1) \o HooksOf(2) \o HooksOf(3)
                 = <<"onCache:begin", "onFetch:begin", "onCache:begin",
                     "onCache:begin", "onFetch:begin">>

\* Three calls followed one another: a miss, a hit on its entry, and after
\* the entry had expired another miss; both hooks handed back their values.
C20_Witness ==
    /\ cfg.onCache /\ cfg.onFetch
    /\ Done(1) /\ Done(2) /\ Done(3) /\ Later(1, 2) /\ Later(2, 3)
    /\ calls[1].nInvoke = 1 /\ calls[1].fetchOut = Num(1)
    /\ calls[2].nInvoke = 0 /\ calls[2].cacheOut = Num(1) /\ calls[2].result = Num(1)
    /\ calls[3].nInvoke = 1 /\ calls[3].held = Undefined /\ calls[3].from = 1
    /\ calls[3].trace = FetchOrder(cfg)
    /\ ticks = 1

-----------------------------------------------------------------------------
(* C25: the onCache hook as the README documents it.                       *)

-----------------------------------------------------------------------------
(* C28: the layer never removes an entry.                                  *)

\* C28: an entry that is in the store and gone after a step had expired,
\* and an entry that a step has changed or created is the entry the
\* store.set of a call with that key has just written: no step of a call
\* removes an entry, and none touches the entry of another key.
C28_NeverRemoves ==
    [][\A k \in DOMAIN store :
          /\ (store[k].present /\ ~store'[k].present) => Expired(store[k], now)
          /\ (store'[k] # store[k] /\ store'[k].present)
                => \E c \in CallIds :
                      /\ Sets(c) /\ calls[c].key = k
                      /\ store'[k].value = calls[c].result]_vars

\* An entry was overwritten under its key by an overlapping call, and
\* another entry was dropped by the store after it had expired.
C28_Witness ==
    \E c \in CallIds, d \in CallIds, e \in CallIds :
        /\ BothMissedAndWrote(c, d) /\ lastSet[calls[d].key] = d
        /\ calls[c].result # calls[d].result
        /\ calls[e].key = calls[d].key /\ Later(d, e)
        /\ calls[e].from = d /\ calls[e].held = Undefined
        /\ calls[e].pc = "method"
        /\ ~store[calls[e].key].present
        /\ ticks = 1

-----------------------------------------------------------------------------
(* C21: the ttl of a store write.                                          *)

-----------------------------------------------------------------------------
(* Nested objects.  A wrapper over an object with a nested object api that  *)
(* has two methods; the hooks pass their value through.                     *)

\* Calls made on the wrapper over the nested object.
MaxNestedCalls == 3

ApiGetUser == [path |-> <<"api">>, prop |-> "getUser", args |-> <<>>]
NestedSites == {ApiGetData, ApiGetUser}

NestedKeys == { SiteKey(p, s) : p \in Prefixes, s \in NestedSites }

NestedResults == {Num(1), Num(2)}

NestedOptions ==
    [prefix : Prefixes, ttl : {Num(1)}, onCache : BOOLEAN, onFetch : BOOLEAN]

InitNested == InitWith(NestedOptions, MaxNestedCalls, NestedKeys)

NextNested ==
    \/ \E c \in CallIds, site \in NestedSites : Call(c, site)
    \/ \E c \in CallIds : OnCacheDone(c, Undefined)
    \/ \E c \in CallIds, value \in NestedResults : MethodDone(c, value)
    \/ \E c \in CallIds : OnFetchDone(c, Undefined)
    \/ \E c \in CallIds : StoreSet(c)

SpecNested == InitNested /\ [][NextNested]_vars

\* How often a hook the root was or was not configured with has run.
Once(configured) == IF configured THEN 1 ELSE 0

-----------------------------------------------------------------------------
(* C22: a nested method is intercepted with the root's configuration.      *)

\* C22: a call of a method of the nested object api uses the key
\* prefix + "api." + name + ":[]" for the one store, the hooks and the
\* write; it runs the root's onCache hook and, when its method returned,
\* the root's onFetch hook; its write carries the root's ttl; a later call of
\* the same nested method is served the result of an earlier one that
\* overlapped no other and does not invoke the method; and calls of
\* different methods of api have different keys and are not served each
\* other's entries.
C22_NestedSameConfig ==
    \A c \in CallIds :
        (Started(c) /\ calls[c].site.path = <<"api">>)
            => /\ KeyUsed(c, cfg.prefix \o "api." \o calls[c].site.prop \o ":[]")
               /\ calls[c].nOnCache = Once(cfg.onCache)
               /\ MethodReturned(c) => calls[c].nOnFetch = Once(cfg.onFetch)
               /\ calls[c].nSet = 1
                    => /\ calls[c].setArgs[3] = cfg.ttl
                       /\ store[calls[c].key].expires = cfg.ttl.n
               /\ \A d \in CallIds :
                     /\ (/\ calls[d].site = calls[c].site
                         /\ Done(c) /\ Alone(c) /\ Later(c, d) /\ PastOnCache(d))
                           => /\ calls[d].nInvoke = 0
                              /\ Done(d) /\ calls[d].result = calls[c].result
                     /\ (/\ Started(d) /\ calls[d].site.path = <<"api">>
                         /\ calls[d].site.prop # calls[c].site.prop)
                           => /\ calls[d].key # calls[c].key
                              /\ calls[d].from # c

\* With both hooks configured api.getData() fetched 1, a second
\* api.getData() was served it, and api.getUser() fetched 2 into an entry
\* of its own.
C22_Witness ==
    \E c \in CallIds, d \in CallIds, e \in CallIds :
        /\ cfg.onCache /\ cfg.onFetch
        /\ calls[c].site = ApiGetData /\ Done(c) /\ calls[c].nInvoke = 1
        /\ calls[c].nOnCache = 1 /\ calls[c].nOnFetch = 1
        /\ calls[c].onFetchArgs = <<"app:api.getData:[]", Num(1)>>
        /\ calls[d].site = ApiGetData /\ Later(c, d) /\ Done(d)
        /\ calls[d].nInvoke = 0 /\ calls[d].result = Num(1)
        /\ calls[d].onCacheArgs = <<"app:api.getData:[]", Num(1)>>
        /\ calls[e].site = ApiGetUser /\ Done(e) /\ calls[e].nInvoke = 1
        /\ store["app:api.getUser:[]"].value = Num(2)
        /\ store["app:api.getData:[]"].value = Num(1)

-----------------------------------------------------------------------------
(* Property access.  The get trap (index.ts:95-146) over an object with     *)
(* properties of every kind: numbers, strings, null, undefined, methods,    *)
(* a nested object, and a reference to itself.  Each slot of calls is one   *)
(* expression of the caller: wrapper.a.b.prop or wrapper.a.b.method(args).  *)

\* Expressions the caller evaluates, and the most property names before
\* the last in one expression.
MaxPropCalls == 2
MaxDepth == 2

Fn == [type |-> "function"]
Ref(o) == [type |-> "object", ref |-> o]

\* The wrapped object.  getBoth calls this.getValue(5) in its body.
ObjectGraph ==
    [root |-> [value |-> Num(42), text |-> Str("hello"), nullValue |-> Null,
               undefinedValue |-> Undefined, getValue |-> Fn, getBoth |-> Fn,
               api |-> Ref("api"), self |-> Ref("root")],
     api |-> [getData |-> Fn]]

ObjectProps == {"api", "self"}
PlainProps == {"value", "text", "nullValue", "undefinedValue"}
MethodSites ==
    { [prop |-> "getValue", args |-> <<Num(5)>>],
      [prop |-> "getBoth", args |-> <<>>],
      [prop |-> "getData", args |-> <<>>] }

\* target[prop]
propValue(o, prop) ==
    IF prop \in DOMAIN ObjectGraph[o] THEN ObjectGraph[o][prop] ELSE Undefined

\* The object a path of property names leads to.
RECURSIVE targetAt(_, _)
targetAt(o, path) ==
    IF path = <<>> THEN o
    ELSE targetAt(propValue(o, Head(path)).ref, Tail(path))

\* typeof val: null is an "object".
typeOf(val) ==
    CASE val.type = "function" -> "function"
      [] val.type \in {"object", "null"} -> "object"
      [] OTHER -> val.type

\* Mutant: the test for null is left out of the nested descent.
trapKind_NoNullCheck(val) ==
    IF typeOf(val) = "function" THEN "method"
    ELSE IF typeOf(val) = "object" THEN "wrapper"
    ELSE "value"

\* What the get trap returns for target[prop]: a caching callable for a
\* function (index.ts:98), a new wrapper for an object that is not null
\* (index.ts:135), and the value itself otherwise (index.ts:145).
trapKind(val) ==
    IF typeOf(val) = "function" THEN "method"
    ELSE IF typeOf(val) = "object" /\ val # Null THEN "wrapper"
    ELSE "value"

\* Mutant: the nested object is wrapped eagerly, its own nested objects too.
wrappersBuilt_Eager(val) ==
    1 + Cardinality({p \in DOMAIN ObjectGraph[val.ref] :
                        ObjectGraph[val.ref][p].type = "object"})

\* KeyvCacheProxy(...)(val) is one new Proxy(val, ...): nothing of val is
\* read or wrapped until it is accessed (index.ts:93-94, 136-142).
wrappersBuilt(val) == 1

PathsUpTo(n) == UNION { [1..k -> ObjectProps] : k \in 0..n }

PropPrefixes == {""}

PropKeys ==
    { deriveKey(nestedPrefix(p, path), m.prop, m.args) :
        p \in PropPrefixes, path \in PathsUpTo(MaxDepth), m \in MethodSites }

PropResults == {Num(1), Null}

PropOptions ==
    [prefix : PropPrefixes, ttl : {Undefined}, onCache : BOOLEAN, onFetch : {FALSE}]

InitProps == InitWith(PropOptions, MaxPropCalls, PropKeys)

\* The object the expression of slot c has reached.
Target(c) == targetAt("root", calls[c].site.path)

\* The slot whose expression the caller evaluates next: the caller awaits
\* each expression before it evaluates the next one.
Evaluating(c) ==
    /\ calls[c].pc = "idle"
    /\ \A d \in CallIds : d < c => Ended(d)

\* The caller reads a property that holds an object: the get trap returns
\* a wrapper over it (index.ts:135-143).  new Proxy throws a TypeError when
\* its target is not an object.
Descend(c, prop) ==
    LET val == propValue(Target(c), prop)
    IN  /\ Evaluating(c)
        /\ Len(calls[c].site.path) < MaxDepth
        /\ trapKind(val) = "wrapper"
        /\ calls' = [calls EXCEPT ![c] =
                       IF val.type = "object"
                       THEN [@ EXCEPT !.val = val,
                                      !.site.path = Append(@, prop),
                                      !.nWrap = @ + wrappersBuilt(val)]
                       ELSE rejects([@ EXCEPT !.val = val, !.thrown = "Proxy"],
                                    "TypeError")]
        /\ UNCHANGED <<cfg, global, store, now, ticks, lastSet>>

\* The caller reads a property that holds neither a function nor an object:
\* the get trap returns Reflect.get(target, prop, receiver) (index.ts:145).
ReadProperty(c, prop) ==
    LET val == propValue(Target(c), prop)
    IN  /\ Evaluating(c)
        /\ trapKind(val) = "value"
        /\ calls' = [calls EXCEPT ![c] =
                       [@ EXCEPT !.val = val, !.site.prop = prop,
                                 !.pc = "done", !.result = val]]
        /\ UNCHANGED <<cfg, global, store, now, ticks, lastSet>>

\* The caller reads a property that holds a function and calls what the
\* get trap returned.
CallMethod(c, m) ==
    /\ Evaluating(c)
    /\ trapKind(propValue(Target(c), m.prop)) = "method"
    /\ Call(c, [path |-> calls[c].site.path, prop |-> m.prop, args |-> m.args])

\* The body of getBoth calls this.getValue(5).  When this is the wrapped
\* object the call is a plain call; were it the wrapper, the call would go
\* through the get trap and read the store.
InnerCall(c) ==
    /\ calls[c].pc = "method"
    /\ calls[c].site.prop = "getBoth"
    /\ calls[c].inner = 0
    /\ calls' = [calls EXCEPT ![c] =
                   [@ EXCEPT !.inner = 1,
                             !.intercepted = IF calls[c].this = "proxy" THEN 1 ELSE 0,
                             !.nGet = IF calls[c].this = "proxy" THEN @ + 1 ELSE @]]
    /\ UNCHANGED <<cfg, global, store, now, ticks, lastSet>>

NextProps ==
    \/ \E c \in CallIds, prop \in ObjectProps \cup PlainProps : Descend(c, prop)
    \/ \E c \in CallIds, prop \in PlainProps : ReadProperty(c, prop)
    \/ \E c \in CallIds, m \in MethodSites : CallMethod(c, m)
    \/ \E c \in CallIds : OnCacheDone(c, Undefined)
    \/ \E c \in CallIds : InnerCall(c)
    \/ \E c \in CallIds, value \in PropResults : MethodDone(c, value)
    \/ \E c \in CallIds : StoreSet(c)

SpecProps == InitProps /\ [][NextProps]_vars

-----------------------------------------------------------------------------
(* C23: properties that hold neither a function nor an object.              *)

Primitive(val) == val.type \in {"number", "string", "null", "undefined"}

\* C23: reading a property whose value is a number, a string, null or
\* undefined ends the access at once with that value unchanged; the access
\* reads and writes no store entry and invokes no hook and no method.
C23_PlainRead ==
    [][\A c \in CallIds :
         (calls[c].pc = "idle" /\ calls'[c] # calls[c] /\ Primitive(calls'[c].val))
         => /\ calls'[c].pc = "done"
            /\ calls'[c].result = calls'[c].val
            /\ calls'[c].result = propValue(Target(c), calls'[c].site.prop)
            /\ store' = store
            /\ lastSet' = lastSet
            /\ calls'[c].nGet = 0 /\ calls'[c].nSet = 0
            /\ calls'[c].nOnCache = 0 /\ calls'[c].nOnFetch = 0
            /\ calls'[c].nInvoke = 0
            /\ calls'[c].trace = <<>>]_vars

\* null was read through a nested wrapper, with the onCache hook configured
\* and an entry in the store.
C23_Witness ==
    \E c \in CallIds :
       /\ Done(c)
       /\ calls[c].site.path # <<>>
       /\ calls[c].site.prop = "nullValue"
       /\ calls[c].result = Null
       /\ cfg.onCache
       /\ \E k \in DOMAIN store : store[k].present

-----------------------------------------------------------------------------
(* C29: the receiver and the arguments of the original method.              *)

\* C29: on a miss the original method is invoked with the caller's argument
\* list and with the wrapped object, not the wrapper, as its receiver; a
\* call the method makes through its receiver is not intercepted, so the
\* whole call still reads the store once, runs onCache at most once and
\* runs no further hook or write for the inner call.
C29_OriginalReceiver ==
    \A c \in CallIds :
       calls[c].nInvoke = 1
       => /\ calls[c].callArgs = calls[c].site.args
          /\ calls[c].this = "obj"
          /\ calls[c].inner = 1
             => /\ calls[c].intercepted = 0
                /\ calls[c].nGet = 1
                /\ calls[c].nOnCache = Once(cfg.onCache)
                /\ calls[c].nOnFetch = 0
                /\ calls[c].nSet <= 1
                /\ \A k \in DOMAIN store :
                      store[k].present => \E d \in CallIds : calls[d].key = k

C29_Witness ==
    \E c \in CallIds :
       /\ Done(c)
       /\ calls[c].site.prop = "getBoth"
       /\ calls[c].inner = 1
       /\ calls[c].nInvoke = 1
       /\ calls[c].nGet = 1
       /\ calls[c].nSet = 1
       /\ ~store[deriveKey(cfg.prefix, "getValue", <<Num(5)>>)].present

-----------------------------------------------------------------------------
(* C30: wrappers are built one per access.                                  *)

\* C30: one property access builds at most one wrapper and changes nothing
\* else, whatever the object it reaches holds; the wrappers an expression
\* has built number exactly the object properties the caller wrote in it,
\* also along a reference cycle.
C30_LazyWrapping ==
    [][\A c \in CallIds :
         LET built == calls'[c].nWrap - calls[c].nWrap
         IN  /\ built \in {0, 1}
             /\ calls'[c].nWrap = Len(calls'[c].site.path)
             /\ built = 1
                => /\ calls'[c].site.path
                        = Append(calls[c].site.path,
                                 calls'[c].site.path[Len(calls'[c].site.path)])
                   /\ calls'[c].pc = "idle"
                   /\ \A d \in CallIds \ {c} : calls'[d] = calls[d]
                   /\ store' = store]_vars

\* A method was called along the cycle root.self.self.
C30_Witness ==
    \E c \in CallIds :
       /\ Done(c)
       /\ calls[c].site.path = <<"self", "self">>
       /\ calls[c].nWrap = 2
       /\ calls[c].nInvoke = 1

-----------------------------------------------------------------------------
(* C26: a method that returns null.                                         *)

\* Call c missed, its method returned null, and d began with the same key
\* after c had returned and has got past onCache.
NullThenLater(c, d) ==
    /\ Done(c)
    /\ calls[c].nInvoke = 1
    /\ calls[c].fresh = Null
    /\ Later(c, d)
    /\ PastOnCache(d)

-----------------------------------------------------------------------------
(* C27: every intercepted call completes.                                   *)

\* The operation call c awaits completes, by resolving or by rejecting.
Awaited(c) ==
    \/ OnCacheDone(c, Undefined)
    \/ OnCacheThrow(c)
    \/ \E value \in FailResults : MethodDone(c, value)
    \/ MethodThrow(c)
    \/ OnFetchDone(c, Undefined)
    \/ OnFetchThrow(c)
    \/ StoreSet(c)
    \/ StoreSetFail(c)

\* Every operation a call awaits completes in the end.
SpecLive ==
    InitFail /\ [][NextFail]_vars /\ \A c \in 1..MaxCalls : WF_vars(Awaited(c))

InFlight(c) == Started(c) /\ ~Ended(c)

\* C27: when every operation a call awaits completes in the end, every call
\* that has begun ends, as a returned value or as a failure; and a call in
\* flight can always take its next step whatever the other calls are doing.
C27_Completes ==
    /\ \A c \in 1..MaxCalls : Started(c) ~> Ended(c)
    /\ [](\A c \in 1..MaxCalls : InFlight(c) => ENABLED Awaited(c))

\* Two calls with the same key were in flight together; one returned and
\* the other failed.
C27_Witness ==
    \E c \in CallIds, d \in CallIds :
       /\ Overlap(c, d)
       /\ Done(c)
       /\ calls[d].pc = "failed"

-----------------------------------------------------------------------------
(* globalThisCached (index.ts:174-188).  The function is synchronous: a     *)
(* call runs from its test of the map to its return without interleaving,  *)
(* except that its producer may itself call globalThisCached, with the same *)
(* name or another, and may throw.                                          *)

GlobalIds == DOMAIN global.calls

\* What the producer passed by call g returns: a value of its own, or
\* undefined.
Produced(g) == {Num(g), Undefined}

\* Mutant: the test is cache.get(name) !== undefined.
cacheHas_Defined(cache, name) == cache[name].present /\ cache[name].value # Undefined

\* cache.has(name) (index.ts:181)
cacheHas(cache, name) == cache[name].present

\* cache.get(name) (index.ts:182)
cacheGet(cache, name) == cache[name].value

\* cache.set(name, result) (index.ts:185)
cacheSet(cache, name, result) ==
    [cache EXCEPT ![name] = [present |-> TRUE, value |-> result]]

InitGlobalOnly ==
    InitWith([prefix : {""}, ttl : {Undefined}, onCache : {FALSE}, onFetch : {FALSE}],
             0, {})

\* globalThisCached(name, compute) is called, at top level or from inside a
\* producer that is running: a name that is present returns what is stored
\* (index.ts:181-182); otherwise compute() begins (index.ts:184).
GlobalCall(g, name) ==
    LET r == [NoGlobalCall EXCEPT
                !.name = name,
                !.pred = {d \in GlobalIds : /\ global.calls[d].pc = "returned"
                                            /\ global.calls[d].name = name},
                !.from = global.by[name],
                !.reentrant = \E d \in GlobalIds : /\ global.calls[d].pc = "computing"
                                                   /\ global.calls[d].name = name]
    IN  /\ global.calls[g].pc = "idle"
        /\ \A d \in GlobalIds : d < g => global.calls[d].pc # "idle"
        /\ global' =
             IF cacheHas(global.cache, name)
             THEN [global EXCEPT !.calls[g] =
                      [r EXCEPT !.pc = "returned",
                                !.result = cacheGet(global.cache, name)]]
             ELSE [global EXCEPT !.calls[g] = [r EXCEPT !.pc = "computing",
                                                        !.invoked = 1],
                                 !.stack = Append(@, g)]
        /\ UNCHANGED <<cfg, store, now, ticks, calls, lastSet>>

\* The innermost running producer returns: its result is stored under the
\* name and returned (index.ts:184-186).
ComputeReturn(g, value) ==
    /\ global.stack # <<>>
    /\ g = global.stack[Len(global.stack)]
    /\ global' = [global EXCEPT
                    !.cache = cacheSet(@, global.calls[g].name, value),
                    !.by[global.calls[g].name] = g,
                    !.calls[g] = [@ EXCEPT !.pc = "returned", !.result = value],
                    !.stack = SubSeq(@, 1, Len(@) - 1)]
    /\ UNCHANGED <<cfg, store, now, ticks, calls, lastSet>>

\* Mutant: a producer that throws leaves undefined stored under the name.
ComputeThrow_Stores(g) ==
    /\ global.stack # <<>>
    /\ g = global.stack[Len(global.stack)]
    /\ global' = [global EXCEPT
                    !.cache = cacheSet(@, global.calls[g].name, Undefined),
                    !.by[global.calls[g].name] = g,
                    !.calls[g] = [@ EXCEPT !.pc = "threw"],
                    !.stack = SubSeq(@, 1, Len(@) - 1)]
    /\ UNCHANGED <<cfg, store, now, ticks, calls, lastSet>>

\* The innermost running producer throws: the error leaves globalThisCached
\* at index.ts:184 and nothing is stored.
ComputeThrow(g) ==
    /\ global.stack # <<>>
    /\ g = global.stack[Len(global.stack)]
    /\ global' = [global EXCEPT
                    !.calls[g] = [@ EXCEPT !.pc = "threw"],
                    !.stack = SubSeq(@, 1, Len(@) - 1)]
    /\ UNCHANGED <<cfg, store, now, ticks, calls, lastSet>>

NextGlobal ==
    \/ \E g \in GlobalIds, name \in Names : GlobalCall(g, name)
    \/ \E g \in GlobalIds : \E value \in Produced(g) : ComputeReturn(g, value)
    \/ \E g \in GlobalIds : ComputeThrow(g)

SpecGlobal == InitGlobalOnly /\ [][NextGlobal]_vars

-----------------------------------------------------------------------------
(* C24: globalThisCached computes once per name.                            *)

GBegun(g) == global.calls[g].pc # "idle"
SameName(g, h) == global.calls[g].name = global.calls[h].name

\* C24 as stated: the producer is invoked only on the first call for a
\* name; no later call with that name invokes its producer.
C24_FirstCallOnly ==
    \A g \in GlobalIds, h \in GlobalIds :
       (g < h /\ GBegun(g) /\ GBegun(h) /\ SameName(g, h))
       => global.calls[h].invoked = 0

\* C24, amended: once a call with a name has returned, no call with that
\* name that begins later invokes its producer; each returns at once the
\* result then stored under the name, which a call with that name produced
\* and which is the same for all of them unless a producer for the name
\* called globalThisCached with that name itself.  The entry of a name is
\* written by calls with that name only.
C24_OncePerName ==
    /\ \A g \in GlobalIds, h \in GlobalIds :
          (GBegun(h) /\ g \in global.calls[h].pred)
          => LET w == global.calls[h].from
             IN  /\ global.calls[h].invoked = 0
                 /\ global.calls[h].pc = "returned"
                 /\ w \in GlobalIds
                 /\ SameName(w, h)
                 /\ global.calls[w].invoked = 1
                 /\ global.calls[h].result = global.calls[w].result
                 /\ (\A d \in GlobalIds : SameName(d, h) => ~global.calls[d].reentrant)
                    => \A d \in GlobalIds :
                          (SameName(d, h) /\ global.calls[d].pc = "returned"
                           /\ global.calls[d].invoked = 1)
                          => d = w
    /\ \A name \in Names :
          /\ global.cache[name].present
             <=> \E d \in GlobalIds : /\ global.calls[d].name = name
                                      /\ global.calls[d].pc = "returned"
          /\ global.by[name] # 0
             => /\ global.calls[global.by[name]].name = name
                /\ global.cache[name].value = global.calls[global.by[name]].result

\* The first call for a name threw, the second ran its producer, which
\* returned undefined, and the third returned that without running its own,
\* the other name being absent still.
C24_Witness ==
    \E f \in GlobalIds, g \in GlobalIds, h \in GlobalIds :
       /\ f < g /\ g < h
       /\ SameName(f, g) /\ SameName(g, h)
       /\ global.calls[f].pc = "threw"
       /\ global.calls[g].pc = "returned" /\ global.calls[g].invoked = 1
       /\ global.calls[g].result = Undefined
       /\ g \in global.calls[h].pred
       /\ global.calls[h].pc = "returned" /\ global.calls[h].invoked = 0
       /\ global.calls[h].result = Undefined
       /\ \E name \in Names : ~global.cache[name].present

-----------------------------------------------------------------------------
(* C31: a method that returns undefined.                                    *)

\* Every invocation of the original method for key k has returned undefined
\* so far.
AlwaysUndefined(k) ==
    \A d \in CallIds :
       (calls[d].key = k /\ calls[d].pc \in {"set", "done"} /\ calls[d].nInvoke = 1)
       => calls[d].fresh = Undefined

\* C31: with no hooks configured, while a method has returned nothing but
\* undefined for a key, no call with that key is served as a hit: each
\* invokes the method, and each that returns has run store.set and returns
\* undefined.
C31_UndefinedNeverHit ==
    NoHooks
    => \A c \in CallIds :
          (Started(c) /\ AlwaysUndefined(calls[c].key))
          => /\ calls[c].nInvoke = 1
             /\ Done(c) => /\ calls[c].nSet = 1
                           /\ calls[c].result = Undefined
                           /\ calls[c].setArgs[2] = Undefined

\* Three calls one after another, each invoking the method, which returned
\* undefined, and each writing the store.
C31_Witness ==
    \E c \in CallIds, d \in CallIds, e \in CallIds :
       /\ NoHooks
       /\ Later(c, d) /\ Later(d, e)
       /\ \A x \in {c, d, e} :
             /\ Done(x)
             /\ calls[x].nInvoke = 1
             /\ calls[x].nSet = 1
             /\ calls[x].fresh = Undefined
       /\ store[calls[e].key].present

-----------------------------------------------------------------------------
(* C32: a call touches the entry of its own key only.                       *)

\* C32: every step of a call with key k leaves the entry of every other key
\* as it was; what the call read is what the store held under k, and what it
\* returns is that value on a hit and its own method's result on a miss,
\* whatever other calls do meanwhile with other keys.
C32_OwnKeyOnly ==
    [][\A c \in CallIds :
         calls'[c] # calls[c]
         => LET k == calls'[c].key
            IN  /\ \A j \in DOMAIN store \ {k} :
                      store'[j] = store[j] /\ lastSet'[j] = lastSet[j]
                /\ calls[c].pc = "idle"
                   => /\ calls'[c].got = storeGet(store, k, now)
                      /\ calls'[c].got = calls'[c].held
                /\ calls'[c].pc = "done"
                   => calls'[c].result = IF isHit(calls'[c].got)
                                         THEN calls'[c].got
                                         ELSE calls'[c].fresh]_vars

\* A call with another key began, missed, wrote and returned while an
\* earlier call was still in flight, about to write; the earlier call's key
\* has no entry yet.
C32_Witness ==
    \E c \in CallIds, d \in CallIds :
       /\ c < d
       /\ calls[c].key # calls[d].key
       /\ calls[c].pc = "set"
       /\ Done(d) /\ calls[d].nSet = 1
       /\ store[calls[d].key].present
       /\ store[calls[d].key].value = calls[d].result
       /\ ~store[calls[c].key].present

-----------------------------------------------------------------------------
(* C33: where the values in the store come from.                            *)

\* C33: every value the store holds under a key was written by a call with
\* that key which invoked the original method, did not fail and returned;
\* the value is that method result, or what onFetch returned in its place.
\* A call that returned the value onCache supplied, and a call that failed,
\* have written nothing.
C33_StoredFromMethod ==
    /\ \A k \in DOMAIN store :
          store[k].present
          => LET w == lastSet[k]
             IN  /\ w \in CallIds
                 /\ calls[w].key = k
                 /\ calls[w].pc = "done"
                 /\ calls[w].nInvoke = 1
                 /\ calls[w].thrown = ""
                 /\ calls[w].fresh \in MethodResults
                 /\ store[k].value = resolveOnFetch(calls[w].fresh, calls[w].fetchOut)
                 /\ ~returnsModified(calls[w].cacheOut)
    /\ \A c \in CallIds :
          (returnsModified(calls[c].cacheOut) \/ calls[c].pc = "failed")
          => calls[c].nSet = 0 /\ lastSet[calls[c].key] # c

\* The store holds what onFetch made of a method result; another call
\* returned the value onCache supplied, which is not in the store.
C33_Witness ==
    \E c \in CallIds, d \in CallIds :
       /\ Done(c) /\ calls[c].nInvoke = 1
       /\ calls[c].fetchOut = DataObj(HookData)
       /\ store[calls[c].key].present
       /\ store[calls[c].key].value = DataObj(HookData)
       /\ Done(d) /\ calls[d].key = calls[c].key
       /\ calls[d].cacheOut = HookData
       /\ calls[d].result = HookData
       /\ calls[d].nSet = 0

-----------------------------------------------------------------------------
(* C34: what a call returns when others run beside it.                      *)

\* C34: with no hooks configured, a call that returned without invoking the
\* method returns the value its own store.get observed, and a call that
\* invoked the method returns its own method result, also when a call
\* beside it has written another value under the key since its store.get.
C34_OwnReadOrOwnResult ==
    NoHooks
    => \A c \in CallIds :
          Done(c)
          => /\ calls[c].nGet = 1
             /\ calls[c].nInvoke = 0
                => /\ calls[c].got # Undefined
                   /\ calls[c].result = calls[c].got
                   /\ calls[c].result = calls[c].held
             /\ calls[c].nInvoke = 1
                => /\ calls[c].got = Undefined
                   /\ calls[c].result = calls[c].fresh

\* Two calls with the same key were outstanding together and both missed;
\* the method returned 1 to one and 0 to the other, and each returned its
\* own, the one that returned 1 doing so after the other's 0 was written.
C34_Witness ==
    \E c \in CallIds, d \in CallIds :
       /\ NoHooks
       /\ BothMissedAndWrote(c, d)
       /\ calls[c].result = Num(1) /\ calls[d].result = Num(0)
       /\ lastSet[calls[c].key] = c
       /\ store[calls[c].key].present
       /\ store[calls[c].key].value = Num(1)

-----------------------------------------------------------------------------
(* C35: how many store operations and invocations one call makes.           *)

\* C35: every call that has begun has made exactly one store.get, at most
\* one invocation of the original method and at most one store.set; a call
\* has made a store.set only when it invoked the method and the method, and
\* the onFetch hook after it, did not fail.
C35_OneOfEach ==
    \A c \in CallIds :
       Started(c)
       => /\ calls[c].nGet = 1
          /\ calls[c].nInvoke \in {0, 1}
          /\ calls[c].nSet \in {0, 1}
          /\ calls[c].nSet = 1
             => /\ calls[c].nInvoke = 1
                /\ calls[c].thrown \in {"", "set"}
                /\ calls[c].setArgs[2] = calls[c].result
          /\ (Done(c) /\ calls[c].nInvoke = 1) => calls[c].nSet = 1

\* One call missed, invoked the method and wrote; the other invoked the
\* method, which failed, and wrote nothing.
C35_Witness ==
    \E c \in CallIds, d \in CallIds :
       /\ Done(c)
       /\ calls[c].nGet = 1 /\ calls[c].nInvoke = 1 /\ calls[c].nSet = 1
       /\ FailedWith(d, "method")
       /\ calls[d].nGet = 1 /\ calls[d].nInvoke = 1 /\ calls[d].nSet = 0

-----------------------------------------------------------------------------
(* C36: a producer that throws, and a producer that returns undefined.      *)

\* C36: when the producer of a call throws, the call ends with the error
\* and the map is as it was before the producer ended; a call that begins
\* while its name is absent invokes its producer, also after calls with
\* that name that threw; and after a call whose producer returned undefined
\* has returned, the name is present and a later call with that name
\* returns the stored undefined without invoking its producer.
C36_ThrowStoresNothing ==
    [][/\ \A g \in GlobalIds :
            (global.calls[g].pc = "computing" /\ global'.calls[g].pc = "threw")
            => /\ global'.cache = global.cache
               /\ global'.by = global.by
               /\ global'.calls[g].invoked = 1
       /\ \A g \in GlobalIds, name \in Names :
            (global.calls[g].pc = "idle" /\ global'.calls[g].name = name)
            => /\ ~global.cache[name].present => global'.calls[g].invoked = 1
               /\ (\A d \in GlobalIds :
                      global.calls[d].name = name
                      => global.calls[d].pc \in {"threw", "computing"})
                  => global'.calls[g].invoked = 1
               /\ (global.by[name] # 0
                   /\ global.calls[global.by[name]].result = Undefined)
                  => /\ global'.calls[g].invoked = 0
                     /\ global'.calls[g].pc = "returned"
                     /\ global'.calls[g].result = Undefined]_vars

\* The first call for a name threw, the second ran its producer, which
\* returned undefined and is the one whose result the map holds, and the
\* third was served that result.
C36_Witness ==
    \E f \in GlobalIds, g \in GlobalIds, h \in GlobalIds :
       /\ SameName(f, g) /\ SameName(g, h)
       /\ global.calls[f].pc = "threw"
       /\ global.calls[g].from = 0
       /\ global.calls[g].invoked = 1
       /\ global.calls[g].result = Undefined
       /\ global.by[global.calls[g].name] = g
       /\ global.cache[global.calls[g].name].present
       /\ global.calls[h].from = g
       /\ global.calls[h].invoked = 0
       /\ global.calls[h].pc = "returned"

====
